---- MODULE Spec2Model ----
(***************************************************************************)
(* PhotonCodec (src/src/dj_photon_codecs/codecs.py): validate, encode and   *)
(* decode of photon-limited movies, over a chunked-array object store.      *)
(*                                                                         *)
(* An array value is [kind, dtype, shape, pat]: the element of frame t      *)
(* (every pixel of the frame alike) is pat[(t % Len(pat)) + 1].  A stored   *)
(* artifact is the array metadata (shape, chunks, dtype, compressor), one   *)
(* entry per chunk key written, and the attributes written so far.  A       *)
(* string the code inspects character by character (a version) is a         *)
(* sequence of one-character strings; a message is a sequence of parts.     *)
(***************************************************************************)
EXTENDS Integers, Sequences, FiniteSets, TLC

VARIABLES store, pc, call, result, quiet, ncalls, nfaults, arg, out

vars == <<store, pc, call, result, quiet, ncalls, nfaults, arg, out>>

\* ---------------------------------------------------------------- bounds

MaxCalls == 2
MaxFaults == 1
MaxNdim == 4

\* ------------------------------------------------------ program constants

ChunkCap == 100
MinNdim == 3

Procs == {"p1", "p2"}

None == "None"

CODEC_VERSION == <<"1", ".", "0">>
name == "photon"

Min(a, b) == IF a <= b THEN a ELSE b

\* ------------------------------------------------------------ exceptions

\* an exception is [type, msg, cause]; NoCause is the __cause__ of one raised alone
NoCause == [type |-> None]

NoExc == [type |-> None, msg |-> <<>>, cause |-> NoCause]

Raise(type, msg) == [type |-> type, msg |-> msg, cause |-> NoCause]

\* ---------------------------------------------------------------- values

TypeName(value) == value.kind

\* str() of a small number of dimensions
NdimStr(n) == CASE n = 0 -> "0" [] n = 1 -> "1" [] n = 2 -> "2" [] OTHER -> "n"

\* the elements an array holds
Elements(value) ==
    IF \E i \in 1..Len(value.shape) : value.shape[i] = 0
    THEN {}
    ELSE {value.pat[(t % Len(value.pat)) + 1] : t \in 0..(value.shape[1] - 1)}

\* validate with the dimensionality check moved ahead of the element type check
validateDimsFirst(value) ==
    IF value.kind # "ndarray"
    THEN Raise("DataJointError", <<"<photon> requires numpy.ndarray, got ", TypeName(value)>>)
    ELSE IF Len(value.shape) < MinNdim
    THEN Raise("DataJointError", <<"<photon> requires 3D+ arrays (time, height, width, ...), got ", NdimStr(Len(value.shape)), "D">>)
    ELSE IF value.dtype = "object"
    THEN Raise("DataJointError", <<"<photon> does not support object dtype arrays">>)
    ELSE IF \E e \in Elements(value) : e < 0
    THEN Raise("DataJointError", <<"<photon> requires non-negative values (photon counts cannot be negative)">>)
    ELSE NoExc

validate(value) ==
    IF value.kind # "ndarray"
    THEN Raise("DataJointError", <<"<photon> requires numpy.ndarray, got ", TypeName(value)>>)
    ELSE IF value.dtype = "object"
    THEN Raise("DataJointError", <<"<photon> does not support object dtype arrays">>)
    ELSE IF Len(value.shape) < MinNdim
    THEN Raise("DataJointError", <<"<photon> requires 3D+ arrays (time, height, width, ...), got ", NdimStr(Len(value.shape)), "D">>)
    ELSE IF \E e \in Elements(value) : e < 0
    THEN Raise("DataJointError", <<"<photon> requires non-negative values (photon counts cannot be negative)">>)
    ELSE NoExc

\* ------------------------------------------------------------- transform

\* integer square root
ISqrt(n) == CHOOSE r \in 0..n : r * r <= n /\ (r + 1) * (r + 1) > n

\* 2/gain * sqrt(gain*x + 3/8*gain^2 + variance - gain*offset), in tenths
anscombe(x, gain, offset, variance) ==
    ISqrt(400 * (gain * x + variance - gain * offset) + 150 * gain * gain) \div gain

generalized_anscombe(value, gain, offset, variance) ==
    [kind |-> "ndarray", dtype |-> "float64", shape |-> value.shape,
     pat |-> [i \in 1..Len(value.pat) |-> anscombe(value.pat[i], gain, offset, variance)]]

NoArray == [kind |-> None, dtype |-> None, shape |-> <<>>, pat |-> <<>>]

\* -------------------------------------------------------------- chunking

\* chunks without the clamp to the number of frames
ChunksNoClamp(shape) == <<ChunkCap>> \o Tail(shape)

Chunks(shape) == <<Min(ChunkCap, shape[1])>> \o Tail(shape)

\* the chunk keys of an array: only axis 0 is split
ChunkKeys(shape, chunks) ==
    IF chunks[1] = 0 THEN {} ELSE 0..(((shape[1] + chunks[1] - 1) \div chunks[1]) - 1)

\* chunk k of an array: its frames [lo, hi) of the array's data
ChunkOf(array, chunks, k) ==
    [lo |-> k * chunks[1], hi |-> Min((k + 1) * chunks[1], array.shape[1]),
     pat |-> array.pat, dtype |-> array.dtype]

Compressor == [id |-> "blosc", cname |-> "zstd", clevel |-> "5", shuffle |-> "BITSHUFFLE"]

\* ------------------------------------------------------------ addressing

NoneKey == <<>>
Key1 == [_schema |-> "calcium_imaging", _table |-> "recording", _field |-> "movie", recording_id |-> "1"]
Key2 == [_schema |-> "calcium_imaging", _table |-> "recording", _field |-> "movie", recording_id |-> "2"]
Key3 == [_schema |-> "calcium_imaging", _table |-> "recording", _field |-> "movie", recording_id |-> "3"]
BadKey == [_schema |-> "calcium_imaging", _table |-> "recording", recording_id |-> "1"]

ContextKeys == {"_schema", "_table", "_field"}

\* (schema, table, field, primary_key) of a key, or the failure
extract_context(key) ==
    IF ContextKeys \subseteq DOMAIN key
    THEN [exc |-> NoExc, schema |-> key["_schema"], table |-> key["_table"],
          field |-> key["_field"],
          primary_key |-> [c \in (DOMAIN key) \ ContextKeys |-> key[c]]]
    ELSE [exc |-> Raise("DataJointError", <<"<photon> requires schema context: _schema, _table, _field">>),
          schema |-> None, table |-> None, field |-> None, primary_key |-> <<>>]

\* {schema}/{table}/{pk}/{field}{ext}
build_path(schema, table, field, primary_key, ext, store_name) ==
    <<schema, table, primary_key, <<field, ext>>>>

KnownStores == {None}

get_backend(store_name) ==
    IF store_name \in KnownStores
    THEN [exc |-> NoExc, backend |-> store_name]
    ELSE [exc |-> Raise("DataJointError", <<"Unknown store: ", store_name>>), backend |-> None]

PathOf(key) ==
    LET c == extract_context(key)
    IN  build_path(c.schema, c.table, c.field, c.primary_key, ".zarr", None)

Paths == {PathOf(Key1), PathOf(Key2), PathOf(Key3)}

NoPath == <<>>
Addrs == KnownStores \X Paths
NoAddr == <<None, NoPath>>

\* --------------------------------------------------------------- storage

NoArtifact == [exists |-> FALSE]

AttrKeys == <<"codec_version", "codec_name", "anscombe_gain", "anscombe_offset",
              "anscombe_variance", "original_dtype">>

\* the value encode gives attribute i
AttrValue(i, value) ==
    CASE i = 1 -> [k |-> AttrKeys[1], v |-> CODEC_VERSION]
      [] i = 2 -> [k |-> AttrKeys[2], v |-> name]
      [] i = 3 -> [k |-> AttrKeys[3], v |-> "1.0"]
      [] i = 4 -> [k |-> AttrKeys[4], v |-> "0.0"]
      [] i = 5 -> [k |-> AttrKeys[5], v |-> "0.0"]
      [] i = 6 -> [k |-> AttrKeys[6], v |-> value.dtype]

NAttrs == Len(AttrKeys)

\* d[item] = v on a mapping
SetItem(d, item, v) == [x \in (DOMAIN d) \cup {item} |-> IF x = item THEN v ELSE d[x]]

\* d.get(item, default)
Get(d, item, default) == IF item \in DOMAIN d THEN d[item] ELSE default

NoAttrs == [x \in {} |-> None]

\* save_array that does not overwrite: the chunks and attributes already stored stay
InitArrayKeep(old, array, chunks) ==
    [exists |-> TRUE, shape |-> array.shape, chunks |-> chunks, dtype |-> array.dtype,
     compressor |-> Compressor,
     data |-> IF old.exists THEN old.data ELSE <<>>,
     attrs |-> IF old.exists THEN old.attrs ELSE <<>>]

\* zarr.save_array, first half: the keys of the old artifact removed (overwrite) and
\* the array metadata written
InitArray(old, array, chunks) ==
    [exists |-> TRUE, shape |-> array.shape, chunks |-> chunks, dtype |-> array.dtype,
     compressor |-> Compressor, data |-> NoAttrs, attrs |-> NoAttrs]

\* ---------------------------------------------------------------- inputs

ListValue == [kind |-> "list", dtype |-> None, shape |-> <<>>, pat |-> <<>>]

Array(dtype, shape, pat) == [kind |-> "ndarray", dtype |-> dtype, shape |-> shape, pat |-> pat]

MovieA == Array("uint16", <<101, 2, 2>>, <<1, 2>>)
MovieB == Array("float32", <<40, 2, 2>>, <<3>>)
Negative == Array("int64", <<40, 2, 2>>, <<1, -1>>)

\* what the callers of encode pass: (value, key, store_name)
EncodeInputs ==
    {<<MovieA, Key1, None>>, <<MovieB, Key1, None>>, <<MovieB, Key2, None>>,
     <<ListValue, Key1, None>>, <<Negative, Key1, None>>,
     <<MovieA, NoneKey, None>>, <<MovieA, Key1, "bogus">>,
     <<ListValue, NoneKey, "bogus">>, <<MovieB, BadKey, "bogus">>}

\* ---------------------------------------------------------------- encode

\* the wrapping error raised without "from e"
WrapNoCause(phase, e) ==
    [type |-> "DataJointError",
     msg |-> <<IF phase = "encode" THEN "Failed to encode photon movie: "
               ELSE "Failed to decode photon movie: ">> \o e.msg,
     cause |-> NoCause]

Wrap(phase, e) ==
    [type |-> "DataJointError",
     msg |-> <<IF phase = "encode" THEN "Failed to encode photon movie: "
               ELSE "Failed to decode photon movie: ">> \o e.msg,
     cause |-> e]

NoRet == [none |-> TRUE]

NoCall == [op |-> None, value |-> NoArray, key |-> NoneKey, store_name |-> None,
           stored |-> NoAttrs, addr |-> NoAddr, transformed |-> NoArray,
           chunks |-> <<>>, k |-> 0, ai |-> 0, version |-> <<>>, opened |-> FALSE,
           raised |-> NoExc, prev |-> {}]

\* encode with the transform applied before the backend is resolved
EncodePrepareTransformFirst(value, key, store_name) ==
    LET v == validate(value)
        c == extract_context(key)
        path == build_path(c.schema, c.table, c.field, c.primary_key, ".zarr", store_name)
        b == get_backend(store_name)
        failed(e) == [raised |-> e, path |-> NoPath, backend |-> None,
                      transformed |-> NoArray, chunks |-> <<>>]
    IN  IF v # NoExc THEN failed(v)
        ELSE IF c.exc # NoExc THEN failed(c.exc)
        ELSE IF b.exc # NoExc
        THEN [failed(b.exc) EXCEPT !.transformed = generalized_anscombe(value, 1, 0, 0)]
        ELSE [raised |-> NoExc, path |-> path, backend |-> b.backend,
              transformed |-> generalized_anscombe(value, 1, 0, 0),
              chunks |-> Chunks(value.shape)]

\* encode up to the write: validate, context, path, backend, transform, chunks.
\* The first stage to fail ends it; transformed and chunks exist only past them all.
EncodePrepare(value, key, store_name) ==
    LET v == validate(value)
        c == extract_context(key)
        path == build_path(c.schema, c.table, c.field, c.primary_key, ".zarr", store_name)
        b == get_backend(store_name)
        failed(e) == [raised |-> e, path |-> NoPath, backend |-> None,
                      transformed |-> NoArray, chunks |-> <<>>]
    IN  IF v # NoExc THEN failed(v)
        ELSE IF c.exc # NoExc THEN failed(c.exc)
        ELSE IF b.exc # NoExc THEN failed(b.exc)
        ELSE [raised |-> NoExc, path |-> path, backend |-> b.backend,
              transformed |-> generalized_anscombe(value, 1, 0, 0),
              chunks |-> Chunks(value.shape)]

Resting == {"idle", "enc_ok", "enc_err", "dec_ok", "dec_err"}
EncodeIO == {"enc_save", "enc_chunks", "enc_open", "enc_attrs"}

\* a write to address a by p is seen by every other call on a
Disturb(p, a) == [q \in Procs |-> IF q # p /\ call[q].addr = a THEN FALSE ELSE quiet[q]]

\* the encodes of address a that have failed after resolving it
Failed(a) ==
    {[value |-> call[q].value, path |-> a[2]] :
        q \in {r \in Procs : pc[r] = "enc_err" /\ call[r].addr = a /\ a # NoAddr}}

\* the encodes of address a that have returned, as (value, returned path)
Returned(a) ==
    {[value |-> call[q].value, path |-> result[q].ret.path] :
        q \in {r \in Procs : pc[r] = "enc_ok" /\ call[r].addr = a}}

EncodeCall(p, value, key, store_name) ==
    /\ pc[p] \in Resting
    /\ ncalls < MaxCalls
    /\ LET r == EncodePrepare(value, key, store_name)
           a == <<r.backend, r.path>>
       IN  /\ call' = [call EXCEPT ![p] =
                          [NoCall EXCEPT !.op = "encode", !.value = value, !.key = key,
                                         !.store_name = store_name, !.addr = a,
                                         !.transformed = r.transformed,
                                         !.chunks = r.chunks, !.raised = r.raised,
                                         !.prev = IF r.raised = NoExc THEN Returned(a) ELSE {}]]
           /\ IF r.raised = NoExc
              THEN /\ pc' = [pc EXCEPT ![p] = "enc_save"]
                   /\ result' = [result EXCEPT ![p] = [ret |-> NoRet, exc |-> NoExc]]
              ELSE /\ pc' = [pc EXCEPT ![p] = "enc_err"]
                   /\ result' = [result EXCEPT ![p] =
                                    [ret |-> NoRet, exc |-> Wrap("encode", r.raised)]]
    /\ quiet' = [quiet EXCEPT ![p] = TRUE]
    /\ ncalls' = ncalls + 1
    /\ UNCHANGED <<store, nfaults, arg, out>>

\* zarr.save_array: overwrite, array metadata
EncodeSaveArray(p) ==
    /\ pc[p] = "enc_save"
    /\ store' = [store EXCEPT ![call[p].addr] = InitArray(@, call[p].transformed, call[p].chunks)]
    /\ quiet' = Disturb(p, call[p].addr)
    /\ pc' = [pc EXCEPT ![p] = IF ChunkKeys(call[p].transformed.shape, call[p].chunks) = {}
                                THEN "enc_open" ELSE "enc_chunks"]
    /\ call' = [call EXCEPT ![p].k = 0]
    /\ UNCHANGED <<result, ncalls, nfaults, arg, out>>

\* zarr.save_array: the chunks, in order
EncodeWriteChunk(p) ==
    /\ pc[p] = "enc_chunks"
    /\ LET c == call[p]
           a == c.addr
           keys == ChunkKeys(c.transformed.shape, c.chunks)
       IN  /\ store' = [store EXCEPT ![a].data =
                           SetItem(@, c.k, ChunkOf(c.transformed, c.chunks, c.k))]
           /\ quiet' = Disturb(p, a)
           /\ call' = [call EXCEPT ![p].k = c.k + 1]
           /\ pc' = [pc EXCEPT ![p] = IF c.k + 1 \in keys THEN "enc_chunks" ELSE "enc_open"]
    /\ UNCHANGED <<result, ncalls, nfaults, arg, out>>

\* z = zarr.open(store_map, mode="r+")
EncodeOpen(p) ==
    /\ pc[p] = "enc_open"
    /\ IF store[call[p].addr].exists
       THEN /\ pc' = [pc EXCEPT ![p] = "enc_attrs"]
            /\ call' = [call EXCEPT ![p].opened = TRUE, ![p].ai = 0]
            /\ UNCHANGED result
       ELSE LET e == Raise("PathNotFoundError", <<"nothing found at path">>)
            IN  /\ pc' = [pc EXCEPT ![p] = "enc_err"]
                /\ call' = [call EXCEPT ![p].raised = e]
                /\ result' = [result EXCEPT ![p] = [ret |-> NoRet, exc |-> Wrap("encode", e)]]
    /\ UNCHANGED <<store, quiet, ncalls, nfaults, arg, out>>

\* z.attrs[...] = ..., one attribute a step
EncodeSetAttr(p) ==
    /\ pc[p] = "enc_attrs"
    /\ call[p].ai < NAttrs
    /\ LET a == call[p].addr
           kv == AttrValue(call[p].ai + 1, call[p].value)
       IN  /\ store' = [store EXCEPT ![a].attrs = SetItem(@, kv.k, kv.v)]
           /\ quiet' = Disturb(p, a)
    /\ call' = [call EXCEPT ![p].ai = @ + 1]
    /\ UNCHANGED <<pc, result, ncalls, nfaults, arg, out>>

EncodeResult(path, store_name, value, transformed) ==
    [path |-> path, store |-> store_name, codec_version |-> CODEC_VERSION,
     shape |-> value.shape, dtype |-> transformed.dtype, transform |-> "anscombe"]

EncodeReturn(p) ==
    /\ pc[p] = "enc_attrs"
    /\ call[p].ai = NAttrs
    /\ pc' = [pc EXCEPT ![p] = "enc_ok"]
    /\ result' = [result EXCEPT ![p] =
                     [ret |-> EncodeResult(call[p].addr[2], call[p].store_name,
                                           call[p].value, call[p].transformed),
                      exc |-> NoExc]]
    /\ UNCHANGED <<store, call, quiet, ncalls, nfaults, arg, out>>

\* the backend fails an I/O step of encode
EncodeIOError(p) ==
    /\ pc[p] \in EncodeIO
    /\ nfaults < MaxFaults
    /\ LET e == Raise("OSError", <<"I/O error">>)
       IN  /\ call' = [call EXCEPT ![p].raised = e]
           /\ result' = [result EXCEPT ![p] = [ret |-> NoRet, exc |-> Wrap("encode", e)]]
    /\ pc' = [pc EXCEPT ![p] = "enc_err"]
    /\ nfaults' = nfaults + 1
    /\ UNCHANGED <<store, quiet, ncalls, arg, out>>

\* ---------------------------------------------------------------- decode

StartsWith(s, prefix) == Len(s) >= Len(prefix) /\ SubSeq(s, 1, Len(prefix)) = prefix

V1_0 == <<"1", ".", "0">>
V1_5 == <<"1", ".", "5">>
V2_0 == <<"2", ".", "0">>
V10_0 == <<"1", "0", ".", "0">>

\* the records the host hands to decode: the record of an address, with the version
\* field as revisions 1.5 and 10.0 of the codec return it, or without it; a record
\* without its path; a record of a store that is not configured
StoredVersions == {<<>>, V1_5, V10_0}

StoredRecord(a, version) ==
    LET r == [path |-> a[2], store |-> a[1], shape |-> <<>>, dtype |-> "float64",
              transform |-> "anscombe"]
    IN  IF version = <<>> THEN r ELSE SetItem(r, "codec_version", version)

StoredRecords ==
    {StoredRecord(<<None, PathOf(Key1)>>, v) : v \in StoredVersions}
    \cup {StoredRecord(<<None, PathOf(Key2)>>, V1_5)}
    \cup {StoredRecord(<<None, PathOf(Key3)>>, v) : v \in {<<>>, V10_0}}
    \cup {[store |-> None, codec_version |-> CODEC_VERSION]}
    \cup {StoredRecord(<<"bogus", PathOf(Key1)>>, CODEC_VERSION)}

DecodeCall(p, stored) ==
    /\ pc[p] \in Resting
    /\ ncalls < MaxCalls
    /\ LET b == get_backend(Get(stored, "store", None))
           e == IF b.exc # NoExc THEN b.exc
                ELSE IF "path" \notin DOMAIN stored THEN Raise("KeyError", <<"path">>)
                ELSE NoExc
           a == IF e = NoExc THEN <<b.backend, stored["path"]>> ELSE NoAddr
       IN  /\ call' = [call EXCEPT ![p] =
                          [NoCall EXCEPT !.op = "decode", !.stored = stored, !.addr = a,
                                         !.raised = e, !.prev = Failed(a)]]
           /\ IF e = NoExc
              THEN /\ pc' = [pc EXCEPT ![p] = "dec_open"]
                   /\ result' = [result EXCEPT ![p] = [ret |-> NoRet, exc |-> NoExc]]
              ELSE /\ pc' = [pc EXCEPT ![p] = "dec_err"]
                   /\ result' = [result EXCEPT ![p] = [ret |-> NoRet, exc |-> Wrap("decode", e)]]
    /\ quiet' = [quiet EXCEPT ![p] = TRUE]
    /\ ncalls' = ncalls + 1
    /\ UNCHANGED <<store, nfaults, arg, out>>

\* zarr.open without mode="r": what is not there is created
DecodeOpenCreate(p) ==
    /\ pc[p] = "dec_open"
    /\ store' = [store EXCEPT ![call[p].addr] =
                    IF @.exists THEN @ ELSE InitArray(@, NoArray, <<>>)]
    /\ pc' = [pc EXCEPT ![p] = "dec_check"]
    /\ call' = [call EXCEPT ![p].opened = TRUE]
    /\ UNCHANGED <<result, quiet, ncalls, nfaults, arg, out>>

\* z = zarr.open(store_map, mode="r")
DecodeOpen(p) ==
    /\ pc[p] = "dec_open"
    /\ IF store[call[p].addr].exists
       THEN /\ pc' = [pc EXCEPT ![p] = "dec_check"]
            /\ call' = [call EXCEPT ![p].opened = TRUE]
            /\ UNCHANGED result
       ELSE LET e == Raise("PathNotFoundError", <<"nothing found at path">>)
            IN  /\ pc' = [pc EXCEPT ![p] = "dec_err"]
                /\ call' = [call EXCEPT ![p].raised = e]
                /\ result' = [result EXCEPT ![p] = [ret |-> NoRet, exc |-> Wrap("decode", e)]]
    /\ UNCHANGED <<store, quiet, ncalls, nfaults, arg, out>>

\* the priority turned round: DB metadata > Zarr attrs > default
VersionOfRecordFirst(attrs, stored) ==
    Get(stored, "codec_version", Get(attrs, "codec_version", V1_0))

\* the version to check: Zarr attrs > DB metadata > default "1.0"
VersionOf(attrs, stored) ==
    Get(attrs, "codec_version", Get(stored, "codec_version", V1_0))

\* the prefix without its dot
CompatibleNoDot(version) == StartsWith(version, <<"1">>)

\* all v1.x versions are compatible
Compatible(version) == StartsWith(version, <<"1", ".">>)

Handle(a) == [array |-> a, mode |-> "r"]

DecodeCheck(p) ==
    /\ pc[p] = "dec_check"
    /\ LET version == VersionOf(store[call[p].addr].attrs, call[p].stored)
       IN  IF Compatible(version)
           THEN /\ pc' = [pc EXCEPT ![p] = "dec_ok"]
                /\ call' = [call EXCEPT ![p].version = version]
                /\ result' = [result EXCEPT ![p] = [ret |-> Handle(call[p].addr), exc |-> NoExc]]
           ELSE LET e == Raise("DataJointError",
                               <<"Unsupported photon codec version: ", version,
                                 ". Upgrade dj-photon-codecs or migrate data.">>)
                IN  /\ pc' = [pc EXCEPT ![p] = "dec_err"]
                    /\ call' = [call EXCEPT ![p].version = version, ![p].raised = e]
                    /\ result' = [result EXCEPT ![p] = [ret |-> NoRet, exc |-> Wrap("decode", e)]]
    /\ UNCHANGED <<store, quiet, ncalls, nfaults, arg, out>>

\* the backend fails an I/O step of decode
DecodeIOError(p) ==
    /\ pc[p] \in {"dec_open", "dec_check"}
    /\ nfaults < MaxFaults
    /\ LET e == Raise("OSError", <<"I/O error">>)
       IN  /\ call' = [call EXCEPT ![p].raised = e]
           /\ result' = [result EXCEPT ![p] = [ret |-> NoRet, exc |-> Wrap("decode", e)]]
    /\ pc' = [pc EXCEPT ![p] = "dec_err"]
    /\ nfaults' = nfaults + 1
    /\ UNCHANGED <<store, quiet, ncalls, arg, out>>

\* ------------------------------------------------------------ the system

\* what encode of value, alone, leaves at its address
Art(value) ==
    LET t == generalized_anscombe(value, 1, 0, 0)
        c == Chunks(value.shape)
    IN  [exists |-> TRUE, shape |-> value.shape, chunks |-> c, dtype |-> "float64",
         compressor |-> Compressor,
         data |-> [k \in ChunkKeys(value.shape, c) |-> ChunkOf(t, c, k)],
         attrs |-> [x \in {AttrKeys[i] : i \in 1..NAttrs} |->
                      (CHOOSE kv \in {AttrValue(i, value) : i \in 1..NAttrs} : kv.k = x).v]]

\* the artifacts other revisions of the codec left, each declaring its own version
Legacy(version) == [Art(MovieB) EXCEPT !.attrs["codec_version"] = version]

InitStore ==
    [a \in Addrs |->
        IF a = <<None, PathOf(Key2)>> THEN Legacy(V2_0)
        ELSE IF a = <<None, PathOf(Key3)>> THEN Legacy(V1_5)
        ELSE NoArtifact]

NoOut == [op |-> None, exc |-> NoExc, chunks |-> <<>>]

Init ==
    /\ store = InitStore
    /\ pc = [p \in Procs |-> "idle"]
    /\ call = [p \in Procs |-> NoCall]
    /\ result = [p \in Procs |-> [ret |-> NoRet, exc |-> NoExc]]
    /\ quiet = [p \in Procs |-> TRUE]
    /\ ncalls = 0
    /\ nfaults = 0
    /\ arg = NoArray
    /\ out = NoOut

Next ==
    \E p \in Procs :
        \/ \E i \in EncodeInputs : EncodeCall(p, i[1], i[2], i[3])
        \/ EncodeSaveArray(p)
        \/ EncodeWriteChunk(p)
        \/ EncodeOpen(p)
        \/ EncodeSetAttr(p)
        \/ EncodeReturn(p)
        \/ EncodeIOError(p)
        \/ \E stored \in StoredRecords : DecodeCall(p, stored)
        \/ DecodeOpen(p)
        \/ DecodeCheck(p)
        \/ DecodeIOError(p)

Spec == Init /\ [][Next]_vars

\* ------------------------------------------- validate and chunks, directly

Dtypes == {"uint16", "float32", "object"}
TimeLens == {0, 1, 40, 100, 101, 250}
SpaceLens == {1, 64}
Pats == {<<0>>, <<1, 2>>, <<2, -1>>}

Shapes ==
    UNION {{s \in [1..n -> TimeLens \cup SpaceLens] :
               s[1] \in TimeLens /\ \A i \in 2..n : s[i] \in SpaceLens} : n \in 2..MaxNdim}

\* the values a caller may hand to validate
AnyValues == {ListValue} \cup {Array(d, s, pt) : d \in Dtypes, s \in Shapes, pt \in Pats}

ValidateCall ==
    /\ out.op = None
    /\ out' = [op |-> "validate", exc |-> validate(arg), chunks |-> <<>>]
    /\ UNCHANGED <<store, pc, call, result, quiet, ncalls, nfaults, arg>>

\* chunk_time and chunks of encode, for a value that passed validate
ChunksCall ==
    /\ out.op = "validate"
    /\ out.exc = NoExc
    /\ out' = [out EXCEPT !.op = "chunks", !.chunks = Chunks(arg.shape)]
    /\ UNCHANGED <<store, pc, call, result, quiet, ncalls, nfaults, arg>>

InitPure ==
    /\ store = InitStore
    /\ pc = [p \in Procs |-> "idle"]
    /\ call = [p \in Procs |-> NoCall]
    /\ result = [p \in Procs |-> [ret |-> NoRet, exc |-> NoExc]]
    /\ quiet = [p \in Procs |-> TRUE]
    /\ ncalls = 0
    /\ nfaults = 0
    /\ arg \in AnyValues
    /\ out = NoOut

NextPure == ValidateCall \/ ChunksCall

SpecPure == InitPure /\ [][NextPure]_vars

\* ============================================================== properties

DigitVal(c) ==
    CASE c = "0" -> 0 [] c = "1" -> 1 [] c = "2" -> 2 [] c = "3" -> 3 [] c = "4" -> 4
      [] c = "5" -> 5 [] c = "6" -> 6 [] c = "7" -> 7 [] c = "8" -> 8 [] c = "9" -> 9

RECURSIVE ToInt(_)
ToInt(digits) ==
    IF digits = <<>> THEN 0
    ELSE 10 * ToInt(SubSeq(digits, 1, Len(digits) - 1)) + DigitVal(digits[Len(digits)])

\* the major version of "major.minor"
Major(version) ==
    LET dot == CHOOSE i \in 1..Len(version) :
                   version[i] = "." /\ \A j \in 1..(i - 1) : version[j] # "."
    IN  ToInt(SubSeq(version, 1, dot - 1))

\* an artifact with its whole attribute set and every chunk of its grid
Complete(art) ==
    /\ art.exists
    /\ DOMAIN art.attrs = {AttrKeys[i] : i \in 1..NAttrs}
    /\ ChunkKeys(art.shape, art.chunks) \subseteq DOMAIN art.data

FirstPart(msg) == IF msg = <<>> THEN "" ELSE msg[1]

DecodePcs == {"dec_open", "dec_check", "dec_ok", "dec_err"}

\* C1: a decode that follows a failed encode of its address, with no write to the
\* address since the decode began, either fails or returns a complete artifact.
C1_FailedEncodeLeavesNothingIncomplete ==
    \A p \in Procs :
        (pc[p] = "dec_ok" /\ quiet[p] /\ call[p].prev # {})
            => Complete(store[call[p].addr])

\* C2: a decode that reaches the version check returns the handle exactly when the
\* major version of the version it found is 1; otherwise it fails with an error
\* that names that version, the artifact having been opened.
C2_VersionGate ==
    \A p \in Procs :
        /\ pc[p] = "dec_ok"
              => /\ Major(call[p].version) = 1
                 /\ result[p].ret = Handle(call[p].addr)
                 /\ call[p].opened
        /\ (pc[p] = "dec_err" /\ call[p].version # <<>>)
              => /\ Major(call[p].version) # 1
                 /\ call[p].opened
                 /\ result[p].ret = NoRet
                 /\ call[p].raised.msg[1] = "Unsupported photon codec version: "
                 /\ call[p].raised.msg[2] = call[p].version
                 /\ result[p].exc.msg[3] = call[p].version

C2_Witness ==
    \E p, q \in Procs :
        /\ pc[p] = "dec_err" /\ call[p].version = V2_0
        /\ pc[q] = "dec_ok" /\ call[q].version = V1_5

\* C3: the version decode checks is the artifact's own codec_version attribute when
\* it has one, else the version of the stored record, else "1.0"; a decode of an
\* artifact without the attribute fails for no other reason than that version.
C3_VersionFallback ==
    \A p \in Procs :
        (pc[p] \in {"dec_ok", "dec_err"} /\ call[p].version # <<>> /\ quiet[p])
            => LET attrs == store[call[p].addr].attrs
                   stored == call[p].stored
               IN  /\ "codec_version" \in DOMAIN attrs
                        => call[p].version = attrs["codec_version"]
                   /\ ("codec_version" \notin DOMAIN attrs /\ "codec_version" \in DOMAIN stored)
                        => call[p].version = stored["codec_version"]
                   /\ ("codec_version" \notin DOMAIN attrs /\ "codec_version" \notin DOMAIN stored)
                        => call[p].version = <<"1", ".", "0">> /\ pc[p] = "dec_ok"
                   /\ pc[p] = "dec_err" => Major(call[p].version) # 1

C3_Witness ==
    \E p \in Procs :
        /\ pc[p] = "dec_ok" /\ quiet[p]
        /\ "codec_version" \notin DOMAIN store[call[p].addr].attrs
        /\ "codec_version" \notin DOMAIN call[p].stored

\* C4: an encode that returns after an earlier encode of the same cell with other
\* data returned, no other call having written to the cell meanwhile, returns the
\* same path and leaves at the address exactly the artifact of its own data.
C4_IdempotentOverwrite ==
    \A p \in Procs :
        (pc[p] = "enc_ok" /\ quiet[p])
            => \A first \in call[p].prev :
                   first.value # call[p].value
                       => /\ result[p].ret.path = first.path
                          /\ store[call[p].addr] = Art(call[p].value)

C4_Witness ==
    \E p \in Procs :
        /\ pc[p] = "enc_ok" /\ quiet[p]
        /\ call[p].value = MovieB
        /\ \E first \in call[p].prev : first.value = MovieA

\* the element of frame t of an array
ElementAt(value, t) == value.pat[(t % Len(value.pat)) + 1]

HasNegative(value) ==
    /\ \A i \in 1..Len(value.shape) : value.shape[i] > 0
    /\ \E t \in 0..(value.shape[1] - 1) : ElementAt(value, t) < 0

\* C5: validate rejects, in this order, a value that is no numpy array, an object
\* array, an array of fewer than 3 dimensions and an array with a negative element,
\* each with its own error; it accepts every other array; storage is untouched.
C5_ValidateRejects ==
    out.op # None
        => /\ store = InitStore
           /\ IF arg.kind # "ndarray"
              THEN FirstPart(out.exc.msg) = "<photon> requires numpy.ndarray, got "
              ELSE IF arg.dtype = "object"
              THEN FirstPart(out.exc.msg) = "<photon> does not support object dtype arrays"
              ELSE IF Len(arg.shape) < 3
              THEN FirstPart(out.exc.msg) = "<photon> requires 3D+ arrays (time, height, width, ...), got "
              ELSE IF HasNegative(arg)
              THEN FirstPart(out.exc.msg) = "<photon> requires non-negative values (photon counts cannot be negative)"
              ELSE out.exc = NoExc
           /\ out.exc # NoExc => out.exc.type = "DataJointError"

C5_Witness ==
    /\ out.op = "validate"
    /\ arg.kind = "ndarray" /\ arg.dtype = "object" /\ Len(arg.shape) = 2
    /\ HasNegative(arg)

\* C6: an encode that fails on its input, its identity context or its store name
\* has transformed nothing and leaves every storage address as it was.
EarlyFailures ==
    {"<photon> requires numpy.ndarray, got ",
     "<photon> does not support object dtype arrays",
     "<photon> requires 3D+ arrays (time, height, width, ...), got ",
     "<photon> requires non-negative values (photon counts cannot be negative)",
     "<photon> requires schema context: _schema, _table, _field",
     "Unknown store: "}

C6_EarlyFailureNoEffect ==
    [][\A p \in Procs :
          (/\ ncalls' = ncalls + 1
           /\ pc'[p] = "enc_err"
           /\ FirstPart(call'[p].raised.msg) \in EarlyFailures)
              => /\ store' = store
                 /\ call'[p].transformed = NoArray]_vars

C6_Witness ==
    \E p \in Procs :
        /\ pc[p] = "enc_err"
        /\ call[p].value = MovieA /\ call[p].key = Key1 /\ call[p].store_name = "bogus"
        /\ store # InitStore

\* C7: no step of a decode changes a stored artifact; a decode that succeeds
\* returns the read-only handle of its address; and a decode fails on a complete
\* artifact of major version 1 only when the backend fails.
C7_DecodeReadOnly ==
    [][\A p \in Procs :
          (pc'[p] \in DecodePcs /\ pc'[p] # pc[p])
              => /\ store' = store
                 /\ pc'[p] = "dec_ok"
                        => result'[p].ret = [array |-> call'[p].addr, mode |-> "r"]
                 /\ (/\ pc'[p] = "dec_err"
                     /\ call'[p].addr # NoAddr
                     /\ Complete(store[call'[p].addr])
                     /\ Major(store[call'[p].addr].attrs["codec_version"]) = 1)
                        => call'[p].raised.type = "OSError"]_vars

C7_Witness ==
    \E p, q \in Procs :
        /\ p # q
        /\ pc[p] = "dec_ok" /\ pc[q] = "dec_ok"
        /\ call[p].addr = call[q].addr
        /\ result[p].ret = result[q].ret
        /\ Complete(store[call[p].addr])

\* C8: when two encodes of the same cell have both returned, the artifact at the
\* address is the artifact one of them would have left alone.
C8_LastWriterWins ==
    \A p, q \in Procs :
        (p # q /\ pc[p] = "enc_ok" /\ pc[q] = "enc_ok" /\ call[p].addr = call[q].addr)
            => \/ store[call[p].addr] = Art(call[p].value)
               \/ store[call[p].addr] = Art(call[q].value)

\* C9: a call ends in failure exactly when a failure was raised in it; the error
\* the caller gets is the one wrapping error of the call's phase, its cause the
\* failure raised, itself unwrapped; a call that goes on has raised nothing.
C9_ErrorWrapping ==
    \A p \in Procs :
        /\ pc[p] \in {"enc_err", "dec_err"}
              => /\ call[p].raised # NoExc
                 /\ call[p].raised.cause = NoCause
                 /\ result[p].ret = NoRet
                 /\ result[p].exc.type = "DataJointError"
                 /\ result[p].exc.cause = call[p].raised
                 /\ result[p].exc.msg[1] =
                        (IF pc[p] = "enc_err" THEN "Failed to encode photon movie: "
                         ELSE "Failed to decode photon movie: ")
                 /\ SubSeq(result[p].exc.msg, 2, Len(result[p].exc.msg)) = call[p].raised.msg
        /\ pc[p] \notin {"enc_err", "dec_err"}
              => /\ call[p].raised = NoExc
                 /\ result[p].exc = NoExc

C9_Witness ==
    \E p, q \in Procs :
        /\ pc[p] = "enc_err" /\ call[p].raised.type = "OSError" /\ call[p].ai = 3
        /\ pc[q] = "dec_err" /\ call[q].raised.type = "DataJointError"
        /\ call[q].version # <<>>

\* C10: the chunk shape of a valid shape has min(100, shape[0]) frames and the full
\* extent of every other axis: as many dimensions as the shape, none above it.
C10_ChunkShape ==
    out.op = "chunks"
        => /\ Len(out.chunks) = Len(arg.shape)
           /\ Len(arg.shape) >= 3
           /\ out.chunks[1] = (IF arg.shape[1] < 100 THEN arg.shape[1] ELSE 100)
           /\ \A i \in 2..Len(arg.shape) : out.chunks[i] = arg.shape[i]
           /\ \A i \in 1..Len(arg.shape) : out.chunks[i] <= arg.shape[i]
           /\ arg.shape = <<250, 64, 64>> => out.chunks = <<100, 64, 64>>
           /\ arg.shape = <<40, 64, 64>> => out.chunks = <<40, 64, 64>>

C10_Witness ==
    /\ out.op = "chunks"
    /\ arg.shape = <<40, 64, 64>>
    /\ out.chunks = <<40, 64, 64>>

====
